---- MODULE Spec2Model ----
(***************************************************************************)
(* Model of the three coursework scripts of colorsquare/ml-for-nlp:        *)
(*   - Task 1: bow_classification_with_sklearn.py (tokenizer, vocabulary,  *)
(*     bag-of-words encoder, dataset download guard, run pipeline);        *)
(*   - Task 3: bert_poolers.py (pooler selection in MyBertModel.__init__); *)
(*   - hw4: fill_mask.py (template/attribute loop and the bias score).     *)
(* The scripts share nothing at run time, so a behaviour runs one of them, *)
(* chosen in the initial state by `script`.                                *)
(***************************************************************************)
EXTENDS Integers, Sequences, FiniteSets, TLC

VARIABLES
    script,             \* which of the independent scripts this run executes
    \* ---- Task 1: run / create_bow
    bow_pc,             \* position in run(): "train", "val", "test", "done", "failed"
    n_gram,             \* run's n_gram argument
    my_vocab,           \* the dict object bound to my_vocab in run()
    xs,                 \* sentences argument of the latest create_bow call
    given,              \* vocab argument of the latest create_bow call
    tokenized,          \* create_bow's local `tokenized` in the latest call
    ret_vocab,          \* vocab returned by the latest create_bow call
    bows,               \* bow_array returned by the latest create_bow call
    repeat_call,        \* history: the test call got the validation call's sentences
    repeat_equal,       \* history: the test call returned the validation call's bow_array
    \* ---- Task 1: _download_dataset
    file,               \* ../data/review_5k.csv: Absent or its content
    file_before,        \* the file as the latest call found it
    fetched,            \* whether the latest call opened the URL
    dl_outcome,         \* how the latest call ended
    dl_calls,           \* number of _download_dataset calls so far
    writes,             \* number of times the file was opened for writing
    \* ---- Task 3: MyBertModel.__init__
    bert_pc,            \* "init" before construction, "done" after
    pooling_layer_type, \* config.pooling_layer_type
    pooler,             \* class installed as self.pooler, or NoPooler
    bert_error,         \* exception raised by the constructor, or "none"
    \* ---- hw4: fill_mask.py
    fm_pc,              \* position in the module-level loops
    templates,          \* lines of data/templates_en.txt
    attributes,         \* lines of data/occ_en.txt
    lm,                 \* which masked language model the pipeline wraps
    ti,                 \* loop variable i (0-based template index)
    aj,                 \* loop variable j (0-based attribute index)
    prior_sentence,     \* prior_sentence of the current template
    sorted_prior,       \* sorted_prior of the current template
    target_sentences,   \* target_sentences of the current template
    template_norm_probs,\* template_norm_probs: the (country, sum) items, in order
    heap,               \* the inner list objects of `variances`, by identity
    variances,          \* the outer list: one reference to an inner list per row
    computed,           \* history: the record computed for each (i, j)
    cb_score            \* the accumulated score, as a fraction num / den

bow_vars == <<bow_pc, n_gram, my_vocab, xs, given, tokenized, ret_vocab, bows>>
dl_vars == <<file, file_before, fetched, dl_outcome, dl_calls, writes>>
bert_vars == <<bert_pc, pooling_layer_type, pooler, bert_error>>
fm_vars == <<fm_pc, templates, attributes, lm, ti, aj, prior_sentence,
             sorted_prior, target_sentences, template_norm_probs, heap,
             variances, computed, cb_score>>
vars == <<script, bow_vars, repeat_call, repeat_equal, dl_vars, bert_vars, fm_vars>>

(***************************************************************************)
(* Bounds of the model.                                                    *)
(***************************************************************************)
MaxSentences == 2
MaxNGram == 3
MaxCalls == 3
MaxTemplates == 2
MaxAttributes == 2

\* All sequences over S of length 0..n.
RECURSIVE SeqsUpTo(_, _)
SeqsUpTo(S, n) ==
    IF n = 0 THEN {<<>>}
    ELSE LET shorter == SeqsUpTo(S, n - 1)
         IN  shorter \cup {Append(s, e) : s \in {t \in shorter : Len(t) = n - 1}, e \in S}

Range(s) == {s[k] : k \in 1..Len(s)}

(***************************************************************************)
(* Task 1: text.  A review string is modelled by the sequence of its       *)
(* whitespace-separated lexemes; the string itself is the lexemes joined   *)
(* by single spaces.  A lexeme is either a match of the split pattern of   *)
(* line 116 or a word (a chunk without whitespace and without separator    *)
(* characters).                                                            *)
(***************************************************************************)
Separators == {"<br />", ".", "...", ",", "?", "!", "(", ")", ";", "--"}

\* stopwords of lines 92-95: the listed words with every character outside
\* [A-Za-z0-9_] removed.
stopwords == {
    "i", "me", "my", "myself", "we", "our", "ours", "ourselves", "you",
    "youre", "youve", "youll", "youd", "your", "yours", "yourself",
    "yourselves", "he", "him", "his", "himself", "she", "shes", "her",
    "hers", "herself", "it", "its", "itself", "they", "them", "their",
    "theirs", "themselves", "what", "which", "who", "whom", "this", "that",
    "thatll", "these", "those", "am", "is", "are", "was", "were", "be",
    "been", "being", "have", "has", "had", "having", "do", "does", "did",
    "doing", "a", "an", "the", "and", "but", "if", "or", "because", "as",
    "until", "while", "of", "at", "by", "for", "with", "about", "against",
    "between", "into", "through", "during", "before", "after", "above",
    "below", "to", "from", "up", "down", "in", "out", "on", "off", "over",
    "under", "again", "further", "then", "once", "here", "there", "when",
    "where", "why", "how", "all", "any", "both", "each", "few", "more",
    "most", "other", "some", "such", "no", "nor", "not", "only", "own",
    "same", "so", "than", "too", "very", "s", "t", "can", "will", "just",
    "don", "dont", "should", "shouldve", "now", "d", "ll", "m", "o", "re",
    "ve", "y", "ain", "aren", "arent", "couldn", "couldnt", "didn", "didnt",
    "doesn", "doesnt", "hadn", "hadnt", "hasn", "hasnt", "haven", "havent",
    "isn", "isnt", "ma", "mightn", "mightnt", "mustn", "mustnt", "needn",
    "neednt", "shan", "shant", "shouldn", "shouldnt", "wasn", "wasnt",
    "weren", "werent", "won", "wont", "wouldn", "wouldnt"
}

\* process_token: remove the characters outside [A-Za-z0-9_], then lower-case.
\* The table covers the words of Corpus.
process_token(token) ==
    CASE token = "I" -> "i"
      [] token = "Like" -> "like"
      [] token = "It's" -> "its"
      [] token = "&" -> ""
      [] OTHER -> token

\* process_phrase: process every token; for unigrams drop empty tokens and
\* stopwords.
process_phrase(phrase, n) ==
    LET processed == [k \in 1..Len(phrase) |-> process_token(phrase[k])]
    IN  IF n = 1
        THEN SelectSeq(processed, LAMBDA t : t # "" /\ t \notin stopwords)
        ELSE processed

\* re.split(pattern, review) followed by phrase.split(): the word lexemes
\* between separator matches.  Empty pieces contribute no tokens either way.
RECURSIVE split_phrases(_, _, _)
split_phrases(review, cur, acc) ==
    IF review = <<>> THEN Append(acc, cur)
    ELSE IF Head(review) \in Separators
         THEN split_phrases(Tail(review), <<>>, Append(acc, cur))
         ELSE split_phrases(Tail(review), Append(cur, Head(review)), acc)

\* Lines 118-125: the tokens of one review, each non-empty processed phrase
\* followed by the marker '<br />'.
RECURSIVE tokenize_phrases(_, _, _)
tokenize_phrases(phrases, n, tokenized_review) ==
    IF phrases = <<>> THEN tokenized_review
    ELSE LET phrase == process_phrase(Head(phrases), n)
         IN  IF phrase = <<>>
             THEN tokenize_phrases(Tail(phrases), n, tokenized_review)
             ELSE tokenize_phrases(Tail(phrases), n,
                                   Append(tokenized_review \o phrase, "<br />"))

tokenize_review(review, n) ==
    tokenize_phrases(split_phrases(review, <<>>, <<>>), n, <<>>)

\* " ".join(words)
RECURSIVE join(_)
join(words) ==
    IF words = <<>> THEN ""
    ELSE IF Len(words) = 1 THEN words[1]
    ELSE words[1] \o " " \o join(Tail(words))

\* n_gram_sentence: range(len(sentence) - (n_gram - 1)) windows of n_gram tokens.
n_gram_sentence(sentence, n) ==
    LET count == IF Len(sentence) - (n - 1) > 0 THEN Len(sentence) - (n - 1) ELSE 0
    IN  [k \in 1..count |-> join(SubSeq(sentence, k, k + n - 1))]

preprocess_and_split_to_tokens(sentences, n) ==
    [s \in 1..Len(sentences) |-> n_gram_sentence(tokenize_review(sentences[s], n), n)]

(***************************************************************************)
(* Task 1: vocabulary and bag-of-words.  A dict is a function from its     *)
(* keys to their values; an optional dict argument is None_ or Some(d).    *)
(***************************************************************************)
EmptyDict == [t \in {} |-> 0]
None_ == [is_none |-> TRUE, dict |-> EmptyDict]
Some(d) == [is_none |-> FALSE, dict |-> d]
len(d) == Cardinality(DOMAIN d)

\* Faulty variant of vocab_add: the membership test of line 157 is missing.
vocab_add_unchecked(vocab, token) ==
    [t \in DOMAIN vocab \cup {token} |-> IF t = token THEN len(vocab) ELSE vocab[t]]

\* Lines 157-158: if token not in vocab: vocab[token] = len(vocab)
vocab_add(vocab, token) ==
    IF token \notin DOMAIN vocab
    THEN [t \in DOMAIN vocab \cup {token} |-> IF t = token THEN len(vocab) ELSE vocab[t]]
    ELSE vocab

RECURSIVE vocab_add_all(_, _)
vocab_add_all(vocab, sentence) ==
    IF sentence = <<>> THEN vocab
    ELSE vocab_add_all(vocab_add(vocab, Head(sentence)), Tail(sentence))

\* Lines 155-158: the loop over the tokenized sentences.
RECURSIVE vocab_loop(_, _)
vocab_loop(vocab, sentences) ==
    IF sentences = <<>> THEN vocab
    ELSE vocab_loop(vocab_add_all(vocab, Head(sentences)), Tail(sentences))

\* Faulty variant of vocab_construction: the loop runs for a supplied dict too.
vocab_construction_unguarded(vocab, sentences) ==
    vocab_loop(IF vocab.is_none THEN EmptyDict ELSE vocab.dict, sentences)

\* Lines 152-158: a fresh dict is built only when vocab is None; a supplied
\* dict is used as it is.
vocab_construction(vocab, sentences) ==
    IF vocab.is_none THEN vocab_loop(EmptyDict, sentences) ELSE vocab.dict

\* The bag-of-words loops read the dict object `vocab` while they run, so the
\* dict is carried through them in st.vocab beside st.bow_sentence and
\* st.bow_array.

\* Faulty variant of count_token: an unknown token is entered into the dict.
count_token_learning(st, token) ==
    IF token \in DOMAIN st.vocab
    THEN [st EXCEPT !.bow_sentence[st.vocab[token] + 1] = @ + 1]
    ELSE [st EXCEPT !.vocab = vocab_add(st.vocab, token)]

\* Lines 165-166: if token in vocab: bow_sentence[vocab[token]] += 1
count_token(st, token) ==
    IF token \in DOMAIN st.vocab
    THEN [st EXCEPT !.bow_sentence[st.vocab[token] + 1] = @ + 1]
    ELSE st

RECURSIVE count_tokens(_, _)
count_tokens(st, sentence) ==
    IF sentence = <<>> THEN st
    ELSE count_tokens(count_token(st, Head(sentence)), Tail(sentence))

\* Faulty variant of bow_of_sentence: a sentence without tokens gets no vector.
bow_of_sentence_skipping(st, sentence) ==
    IF sentence = <<>> THEN st
    ELSE LET counted == count_tokens(
                 [st EXCEPT !.bow_sentence = [k \in 1..len(st.vocab) |-> 0]], sentence)
         IN  [counted EXCEPT !.bow_array = Append(@, counted.bow_sentence)]

\* Lines 163-167: bow_sentence = [0] * len(vocab); count; bow_array.append.
bow_of_sentence(st, sentence) ==
    LET counted == count_tokens(
            [st EXCEPT !.bow_sentence = [k \in 1..len(st.vocab) |-> 0]], sentence)
    IN  [counted EXCEPT !.bow_array = Append(@, counted.bow_sentence)]

\* Lines 161-167: the loop over the tokenized sentences.
RECURSIVE bow_construction(_, _)
bow_construction(st, sentences) ==
    IF sentences = <<>> THEN st
    ELSE bow_construction(bow_of_sentence(st, Head(sentences)), Tail(sentences))

\* create_bow: the returned pair, with the local `tokenized`.  The returned
\* dict is the object the loops used: the supplied one when one was supplied.
create_bow(sentences, n, vocab) ==
    LET toks == preprocess_and_split_to_tokens(sentences, n)
        st == bow_construction(
                  [vocab |-> vocab_construction(vocab, toks),
                   bow_sentence |-> <<>>, bow_array |-> <<>>], toks)
    IN  [tokenized |-> toks, vocab |-> st.vocab, bow_array |-> st.bow_array]

(***************************************************************************)
(* Task 1: inputs.  A review set is a list of at most MaxSentences reviews *)
(* of Corpus; run's n_gram is one of NGrams.                               *)
(***************************************************************************)
Corpus == {
    <<"I", "like", "apples">>,                         \* "I like apples"
    <<"I", "love", "python3">>,                        \* "I love python3"
    <<"It's", "apples", ",", "Like", "apples", "!">>,  \* "It's apples , Like apples !"
    <<"&", "<br />", "I">>                             \* "& <br /> I"
}
ReviewSets == SeqsUpTo(Corpus, MaxSentences)
NGrams == 1..MaxNGram

(***************************************************************************)
(* Task 1: _download_dataset.  The file is Absent or holds a content; the  *)
(* remote end answers with one of Bodies, or a step of the download raises *)
(* and the exception leaves the function.                                  *)
(***************************************************************************)
Absent == "<absent>"
Bodies == {"review_5k.csv@remote"}

\* Faulty variant of needs_download: the existence test is missing.
needs_download_always(f) == TRUE

\* Line 34: if not os.path.isfile(file_path)
needs_download(f) == f = Absent

\* The effect of one call of _download_dataset on the file and its history.
DownloadStep(new_file, did_fetch, did_write, outcome) ==
    /\ file_before' = file
    /\ file' = new_file
    /\ fetched' = did_fetch
    /\ writes' = IF did_write THEN writes + 1 ELSE writes
    /\ dl_outcome' = outcome
    /\ dl_calls' = dl_calls + 1

\* Lines 34-41, returning: a missing file is fetched and written (lines
\* 35-39), an existing one is left alone (lines 40-41).
DownloadReturns ==
    IF needs_download(file)
    THEN \E body \in Bodies : DownloadStep(body, TRUE, TRUE, "returned")
    ELSE DownloadStep(file, FALSE, FALSE, "returned")

\* Line 36: os.makedirs raises; nothing was requested or written.
MakedirsFails == needs_download(file) /\ DownloadStep(file, FALSE, FALSE, "OSError")

\* Line 38: urlopen raises before the file is opened.
UrlopenFails == needs_download(file) /\ DownloadStep(file, TRUE, FALSE, "URLError")

\* Lines 38-39: open(file_path, 'wb') has created the file when u.read() raises.
ReadFails == needs_download(file) /\ DownloadStep("", TRUE, TRUE, "ReadError")

\* _download_dataset called on its own, up to MaxCalls times.
DownloadCall(step) ==
    /\ script = "download" /\ dl_calls < MaxCalls
    /\ step
    /\ UNCHANGED <<script, bow_vars, repeat_call, repeat_equal, bert_vars, fm_vars>>

DownloadFetch == needs_download(file) /\ DownloadCall(DownloadReturns)
DownloadSkip == ~needs_download(file) /\ DownloadCall(DownloadReturns)
DownloadMakedirsFails == DownloadCall(MakedirsFails)
DownloadUrlopenFails == DownloadCall(UrlopenFails)
DownloadReadFails == DownloadCall(ReadFails)

(***************************************************************************)
(* Task 1: run().  The reviews that _get_review_data returns are inputs;   *)
(* the classifier calls between the create_bow calls touch none of the     *)
(* modelled state.  my_vocab is the dict object the train call returned;   *)
(* the later calls are handed that object and return it, so its content    *)
(* after such a call is the content of the returned dict.  The file is     *)
(* touched by the train step only.                                         *)
(***************************************************************************)
BowCall(sentences, n, vocab, next_pc) ==
    \E res \in {create_bow(sentences, n, vocab)} :
        /\ xs' = sentences
        /\ given' = vocab
        /\ tokenized' = res.tokenized
        /\ ret_vocab' = res.vocab
        /\ bows' = res.bow_array
        /\ my_vocab' = Some(res.vocab)
        /\ bow_pc' = next_pc

\* Lines 176-186: _get_review_data calls _download_dataset (line 46) and
\* reads the reviews; then
\* my_vocab, train_bows = create_bow(train_xs, n_gram=n_gram).
Train ==
    /\ script = "bow" /\ bow_pc = "train"
    /\ DownloadReturns
    /\ \E n \in NGrams, train_xs \in ReviewSets :
          /\ n_gram' = n
          /\ BowCall(train_xs, n, None_, "val")
    /\ UNCHANGED <<script, repeat_call, repeat_equal, bert_vars, fm_vars>>

\* Lines 176, 46: the download raises; the exception leaves run().
RunDownloadFails(step) ==
    /\ script = "bow" /\ bow_pc = "train"
    /\ step
    /\ bow_pc' = "failed"
    /\ UNCHANGED <<script, n_gram, my_vocab, xs, given, tokenized, ret_vocab, bows,
                   repeat_call, repeat_equal, bert_vars, fm_vars>>

TrainMakedirsFails == RunDownloadFails(MakedirsFails)
TrainUrlopenFails == RunDownloadFails(UrlopenFails)
TrainReadFails == RunDownloadFails(ReadFails)

\* Line 195: _, val_bows = create_bow(val_xs, n_gram=n_gram, vocab=my_vocab)
Validate ==
    /\ script = "bow" /\ bow_pc = "val"
    /\ \E val_xs \in ReviewSets : BowCall(val_xs, n_gram, my_vocab, "test")
    /\ UNCHANGED <<script, n_gram, repeat_call, repeat_equal, dl_vars, bert_vars, fm_vars>>

\* Lines 205-208: _, test_bows = create_bow(test_xs, n_gram=n_gram, vocab=my_vocab)
Test ==
    /\ script = "bow" /\ bow_pc = "test"
    /\ \E test_xs \in ReviewSets :
          /\ BowCall(test_xs, n_gram, my_vocab, "done")
          /\ repeat_call' = (test_xs = xs)
          /\ repeat_equal' = (bows' = bows)
    /\ UNCHANGED <<script, n_gram, dl_vars, bert_vars, fm_vars>>

\* Lines 209-210: test_xs is None
NoTest ==
    /\ script = "bow" /\ bow_pc = "test"
    /\ bow_pc' = "done"
    /\ UNCHANGED <<script, n_gram, my_vocab, xs, given, tokenized, ret_vocab, bows,
                   repeat_call, repeat_equal, dl_vars, bert_vars, fm_vars>>

(***************************************************************************)
(* Task 3: MyBertModel.__init__.  The if/elif chain of lines 56-72 names a *)
(* pooler class per pooling_layer_type; a name is looked up in the module  *)
(* when its branch runs.                                                   *)
(***************************************************************************)
NoPooler == "<unset>"
\* The pooler classes bert_poolers.py imports (line 6) or defines (lines 10, 26).
ModuleNames == {"BertPooler", "MeanMaxTokensBertPooler", "MyBertPooler"}
RecognisedTypes ==
    {"CLS", "MEAN_MAX", "TOPK_MEAN", "TOPHALF_MEAN", "MEAN_CLS", "TOPK_MEAN_CLS"}
PoolingTypes == RecognisedTypes \cup {"MAX", "cls"}

\* Lines 56-69: the class each branch instantiates.
pooler_class(type) ==
    CASE type = "CLS" -> "BertPooler"
      [] type = "MEAN_MAX" -> "MeanMaxTokensBertPooler"
      [] type = "TOPK_MEAN" -> "TopKMeanBertPooler"
      [] type = "TOPHALF_MEAN" -> "TopHalfMeanBertPooler"
      [] type = "MEAN_CLS" -> "MeanCLSBertPooler"
      [] type = "TOPK_MEAN_CLS" -> "TopKMeanCLSBertPooler"
      [] OTHER -> NoPooler

BertInit(type, installed, error) ==
    /\ script = "bert" /\ bert_pc = "init"
    /\ pooling_layer_type' = type
    /\ pooler' = installed
    /\ bert_error' = error
    /\ bert_pc' = "done"
    /\ UNCHANGED <<script, bow_vars, repeat_call, repeat_equal, dl_vars, fm_vars>>

\* A branch whose class exists: self.pooler is set and __init__ returns.
ConstructInstalls ==
    \E type \in PoolingTypes :
        /\ pooler_class(type) \in ModuleNames
        /\ BertInit(type, pooler_class(type), "none")

\* A branch whose class name is bound nowhere in the module.
ConstructNameError ==
    \E type \in PoolingTypes :
        /\ pooler_class(type) # NoPooler
        /\ pooler_class(type) \notin ModuleNames
        /\ BertInit(type, NoPooler, "NameError")

\* Lines 71-72: no branch matches.
ConstructValueError ==
    \E type \in PoolingTypes :
        /\ pooler_class(type) = NoPooler
        /\ BertInit(type, NoPooler, "ValueError")

(***************************************************************************)
(* hw4: fill_mask.py.  A template or sentence is the sequence of its       *)
(* whitespace-separated words.  A score of the fill-mask pipeline is a     *)
(* power of two, 2^(-exp), so that every ratio of scores and its logarithm *)
(* (a whole multiple of ln 2) are exact; the script's floating-point       *)
(* arithmetic is modelled by exact fractions of these units.               *)
(***************************************************************************)
\* The first entries of `targets` (lines 19-24), in list order.
targets == <<"America", "Canada", "Japan">>

TemplateLines == {
    <<"A", "person", "from", "[TTT]", "is", "a", "[AAA]", ".">>,
    <<"People", "from", "[TTT]", "are", "[AAAs]", ".">>,
    <<"The", "[AAA]", "is", "from", "[TTT]", ".">>
}
AttributeLines == {"doctor", "teacher"}
LanguageModels == {1, 2, 3}

NonEmptySeqsUpTo(S, n) == {s \in SeqsUpTo(S, n) : s # <<>>}

\* pattern.en's pluralize, on the regular nouns of AttributeLines and on "[MASK]".
pluralize(token) == token \o "s"

\* str.replace on a sentence, word by word.
replace(sentence, old, new) ==
    [k \in 1..Len(sentence) |-> IF sentence[k] = old THEN new ELSE sentence[k]]

\* Lines 38-41.
replace_template(template, token) ==
    LET masked == replace(template, "[TTT]", "[MASK]")
    IN  IF "[AAA]" \in Range(masked)
        THEN replace(masked, "[AAA]", token)
        ELSE replace(masked, "[AAAs]", pluralize(token))

\* The tokenizer finds the special token [MASK] inside "[MASK]s" as well.
is_mask(word) == word \in {"[MASK]", "[MASK]s"}

RECURSIVE mask_positions(_, _)
mask_positions(sentence, k) ==
    IF k > Len(sentence) THEN <<>>
    ELSE IF is_mask(sentence[k])
         THEN <<k>> \o mask_positions(sentence, k + 1)
         ELSE mask_positions(sentence, k + 1)

\* A stable insertion sort by an integer key: Python's sorted(..., key=...).
RECURSIVE insert_keyed(_, _)
insert_keyed(sorted, x) ==
    IF sorted = <<>> THEN <<x>>
    ELSE IF sorted[Len(sorted)].key <= x.key
         THEN Append(sorted, x)
         ELSE Append(insert_keyed(SubSeq(sorted, 1, Len(sorted) - 1), x),
                     sorted[Len(sorted)])

RECURSIVE sort_keyed(_)
sort_keyed(list) ==
    IF list = <<>> THEN <<>>
    ELSE insert_keyed(sort_keyed(SubSeq(list, 1, Len(list) - 1)), list[Len(list)])

\* The list ordered by the integer keys given beside it (keys[k] for list[k]).
sort_with_keys(list, keys) ==
    LET keyed == [k \in 1..Len(list) |-> [key |-> keys[k], item |-> list[k]]]
        sorted == sort_keyed(keyed)
    IN  [k \in 1..Len(list) |-> sorted[k].item]

\* The masked language model: the score 2^(-exp) it gives target number c at
\* the mask at position pos of the sentence.  Each of LanguageModels is one
\* fixed scoring function of the sentence's words.
word_code(word) ==
    CASE word = "doctor" -> 1
      [] word = "teacher" -> 2
      [] word = "doctors" -> 3
      [] word = "teachers" -> 5
      [] word = "[MASK]" -> 4
      [] word = "[MASK]s" -> 6
      [] word = "People" -> 7
      [] word = "The" -> 8
      [] OTHER -> 0

RECURSIVE sentence_code(_, _)
sentence_code(sentence, k) ==
    IF k > Len(sentence) THEN 0
    ELSE k * word_code(sentence[k]) + sentence_code(sentence, k + 1)

score_exp(model, sentence, pos, c) ==
    1 + ((sentence_code(sentence, 1) * c + model * c * c + pos * (c + model)) % 3)

\* The fill-mask pipeline (line 34) called with top_k=len(targets): per mask
\* of the sentence, one prediction per target, highest score first.  With one
\* mask the pipeline returns that list itself, with several the list of lists.
predictions_at(model, sentence, pos) ==
    LET scored == [c \in 1..Len(targets) |->
                      [token_str |-> targets[c],
                       exp |-> score_exp(model, sentence, pos, c)]]
    IN  sort_with_keys(scored, [c \in 1..Len(scored) |-> scored[c].exp])

classifier(model, sentence) ==
    LET at == mask_positions(sentence, 1)
    IN  [m \in 1..Len(at) |-> predictions_at(model, sentence, at[m])]

\* The order of Python's string comparison on the target names.
token_rank(token_str) ==
    CASE token_str = "America" -> 1
      [] token_str = "Canada" -> 2
      [] token_str = "Japan" -> 3

\* Faulty variant of sort_by_token_str: the predictions stay in score order.
sort_by_token_str_missing(prediction) == prediction

\* Lines 50 and 62: sorted(prediction, key=lambda x: x['token_str'])
sort_by_token_str(prediction) ==
    sort_with_keys(prediction,
                   [k \in 1..Len(prediction) |-> token_rank(prediction[k].token_str)])

\* Exact fractions.
RECURSIVE Gcd(_, _)
Gcd(a, b) == IF b = 0 THEN a ELSE Gcd(b, a % b)
Abs(a) == IF a < 0 THEN -a ELSE a
Frac(num, den) ==
    LET g == Gcd(Abs(num), den)
    IN  [num |-> num \div g, den |-> den \div g]
FracAdd(a, b) == Frac(a.num * b.den + b.num * a.den, a.den * b.den)
FracDiv(a, k) == Frac(a.num, a.den * k)

RECURSIVE Sum(_)
Sum(s) == IF s = <<>> THEN 0 ELSE Head(s) + Sum(Tail(s))

\* Lines 66-71: zip pairs the two sorted lists position by position;
\* norm_prob = target['score'] / prior['score'] = 2^(prior.exp - target.exp).
\* An entry keeps the base-2 logarithm of norm_prob and the country.
norm_probs_of(prior, target) ==
    LET n == IF Len(prior) < Len(target) THEN Len(prior) ELSE Len(target)
    IN  [k \in 1..n |-> [log2 |-> prior[k].exp - target[k].exp,
                         country |-> target[k].token_str]]

\* Lines 80-81: logPs and their variance, in units of (ln 2)^2.  Sorting and
\* reversing norm_probs (lines 76-77) permutes the summands only.
variance_of(norm_probs) ==
    LET logPs == [k \in 1..Len(norm_probs) |-> norm_probs[k].log2]
        n == Len(logPs)
        squares == [k \in 1..n |-> logPs[k] * logPs[k]]
    IN  Frac(n * Sum(squares) - Sum(logPs) * Sum(logPs), n * n)

Pow2(k) == IF k <= 0 THEN 1 ELSE 2 ^ k

\* 2^log2 as a fraction.
ratio_of(log2) == IF log2 >= 0 THEN Frac(Pow2(log2), 1) ELSE Frac(1, Pow2(-log2))

\* Lines 73-74: template_norm_probs[country] = template_norm_probs.get(country, 0) + norm_prob
\* The dict keeps its keys in insertion order: a list of (country, sum) items.
add_norm_prob(items, e) ==
    IF \E k \in 1..Len(items) : items[k].country = e.country
    THEN [k \in 1..Len(items) |->
             IF items[k].country = e.country
             THEN [items[k] EXCEPT !.sum = FracAdd(@, ratio_of(e.log2))]
             ELSE items[k]]
    ELSE Append(items, [country |-> e.country, sum |-> ratio_of(e.log2)])

RECURSIVE add_norm_probs(_, _)
add_norm_probs(items, norm_probs) ==
    IF norm_probs = <<>> THEN items
    ELSE add_norm_probs(add_norm_prob(items, Head(norm_probs)), Tail(norm_probs))

FracLe(a, b) == a.num * b.den <= b.num * a.den

\* list.sort(key=lambda x: x[1]): a stable sort by the sum.
RECURSIVE insert_by_sum(_, _)
insert_by_sum(sorted, x) ==
    IF sorted = <<>> THEN <<x>>
    ELSE IF FracLe(sorted[Len(sorted)].sum, x.sum)
         THEN Append(sorted, x)
         ELSE Append(insert_by_sum(SubSeq(sorted, 1, Len(sorted) - 1), x),
                     sorted[Len(sorted)])

RECURSIVE sort_by_sum(_)
sort_by_sum(list) ==
    IF list = <<>> THEN <<>>
    ELSE insert_by_sum(sort_by_sum(SubSeq(list, 1, Len(list) - 1)), list[Len(list)])

reverse(list) == [k \in 1..Len(list) |-> list[Len(list) + 1 - k]]

\* Lines 87-89: list(template_norm_probs.items()), sorted by the sum, reversed.
sorted_norm_probs(items) == reverse(sort_by_sum(items))

ZeroEntry == [variance |-> Frac(0, 1), target_sentence |-> <<>>]

\* Line 44: variances = [[0] * len(attributes)] * len(templates).  The outer
\* list repeats one reference to a single inner list object.
initial_rows(n_templates, n_attributes) ==
    [heap |-> <<[j \in 1..n_attributes |-> ZeroEntry]>>,
     variances |-> [i \in 1..n_templates |-> 1]]

\* variances[i][j], 0-based as in the script.
entry(i, j) == heap[variances[i + 1]][j + 1]

\* Lines 26-29, 35, 44: the resource files are read and the accumulators set.
LoadData ==
    /\ script = "fill_mask" /\ fm_pc = "load"
    /\ \E tl \in NonEmptySeqsUpTo(TemplateLines, MaxTemplates),
          al \in NonEmptySeqsUpTo(AttributeLines, MaxAttributes),
          model \in LanguageModels :
          /\ templates' = tl
          /\ attributes' = al
          /\ lm' = model
          /\ heap' = initial_rows(Len(tl), Len(al)).heap
          /\ variances' = initial_rows(Len(tl), Len(al)).variances
          /\ computed' = [i \in 1..Len(tl) |-> [j \in 1..Len(al) |-> ZeroEntry]]
    /\ cb_score' = Frac(0, 1)
    /\ ti' = 0
    /\ fm_pc' = "template"
    /\ UNCHANGED <<script, aj, prior_sentence, sorted_prior, target_sentences,
                   template_norm_probs, bow_vars, repeat_call, repeat_equal,
                   dl_vars, bert_vars>>

\* Lines 47-56: the head of one iteration of the template loop.  The prior
\* sentence holds two masks, so the pipeline returns a list per mask and
\* [0] is the list of the first mask.
BeginTemplate ==
    /\ script = "fill_mask" /\ fm_pc = "template" /\ ti < Len(templates)
    /\ LET template == templates[ti + 1]
           prior == replace_template(template, "[MASK]")
       IN  /\ prior_sentence' = prior
           /\ sorted_prior' = sort_by_token_str(classifier(lm, prior)[1])
           /\ target_sentences' =
                  [j \in 1..Len(attributes) |-> replace_template(template, attributes[j])]
    /\ template_norm_probs' = <<>>
    /\ aj' = 0
    /\ fm_pc' = "attribute"
    /\ UNCHANGED <<script, templates, attributes, lm, ti, heap, variances, computed,
                   cb_score, bow_vars, repeat_call, repeat_equal, dl_vars, bert_vars>>

\* Lines 59-83: one iteration of the attribute loop.  The target sentence
\* holds one mask, so the pipeline returns the list of that mask.
Attribute ==
    /\ script = "fill_mask" /\ fm_pc = "attribute" /\ aj < Len(target_sentences)
    /\ LET target_sentence == target_sentences[aj + 1]
           sorted_target == sort_by_token_str(classifier(lm, target_sentence)[1])
           norm_probs == norm_probs_of(sorted_prior, sorted_target)
           variance == variance_of(norm_probs)
           record == [variance |-> variance, target_sentence |-> target_sentence]
       IN  /\ template_norm_probs' = add_norm_probs(template_norm_probs, norm_probs)
           /\ cb_score' = FracAdd(cb_score, variance)
           /\ heap' = [heap EXCEPT ![variances[ti + 1]][aj + 1] = record]
           /\ computed' = [computed EXCEPT ![ti + 1][aj + 1] = record]
    /\ aj' = aj + 1
    /\ UNCHANGED <<script, fm_pc, templates, attributes, lm, ti, prior_sentence,
                   sorted_prior, target_sentences, variances, bow_vars, repeat_call,
                   repeat_equal, dl_vars, bert_vars>>

\* Lines 86-90: template_norm_probs is rebound to its items, sorted by the
\* sum in descending order, and printed; the loop moves to the next template.
EndTemplate ==
    /\ script = "fill_mask" /\ fm_pc = "attribute" /\ aj = Len(target_sentences)
    /\ template_norm_probs' = sorted_norm_probs(template_norm_probs)
    /\ ti' = ti + 1
    /\ fm_pc' = "template"
    /\ UNCHANGED <<script, templates, attributes, lm, aj, prior_sentence, sorted_prior,
                   target_sentences, heap, variances, computed,
                   cb_score, bow_vars, repeat_call, repeat_equal, dl_vars, bert_vars>>

\* Lines 92-94: cb_score = cb_score / len(templates) / len(attributes)
Finish ==
    /\ script = "fill_mask" /\ fm_pc = "template" /\ ti = Len(templates)
    /\ cb_score' = FracDiv(FracDiv(cb_score, Len(templates)), Len(attributes))
    /\ fm_pc' = "done"
    /\ UNCHANGED <<script, templates, attributes, lm, ti, aj, prior_sentence,
                   sorted_prior, target_sentences, template_norm_probs, heap, variances,
                   computed, bow_vars, repeat_call, repeat_equal, dl_vars, bert_vars>>

(***************************************************************************)
(* The specification.                                                      *)
(***************************************************************************)
Scripts == {"bow", "download", "bert", "fill_mask"}

Init ==
    /\ script \in Scripts
    /\ bow_pc = "train" /\ n_gram = 1 /\ my_vocab = None_
    /\ xs = <<>> /\ given = None_ /\ tokenized = <<>>
    /\ ret_vocab = EmptyDict /\ bows = <<>>
    /\ repeat_call = FALSE /\ repeat_equal = FALSE
    /\ file \in IF script \in {"download", "bow"}
                THEN {Absent, "review_5k.csv@local"} ELSE {Absent}
    /\ file_before = file /\ fetched = FALSE /\ dl_outcome = "none"
    /\ dl_calls = 0 /\ writes = 0
    /\ bert_pc = "init" /\ pooling_layer_type = "CLS" /\ pooler = NoPooler
    /\ bert_error = "none"
    /\ fm_pc = "load" /\ templates = <<>> /\ attributes = <<>> /\ lm = 1
    /\ ti = 0 /\ aj = 0 /\ prior_sentence = <<>> /\ sorted_prior = <<>>
    /\ target_sentences = <<>> /\ template_norm_probs = <<>>
    /\ heap = <<>> /\ variances = <<>> /\ computed = <<>>
    /\ cb_score = Frac(0, 1)

Next ==
    \/ Train \/ TrainMakedirsFails \/ TrainUrlopenFails \/ TrainReadFails
    \/ Validate \/ Test \/ NoTest
    \/ DownloadFetch \/ DownloadMakedirsFails \/ DownloadUrlopenFails
    \/ DownloadReadFails \/ DownloadSkip
    \/ ConstructInstalls \/ ConstructNameError \/ ConstructValueError
    \/ LoadData \/ BeginTemplate \/ Attribute \/ EndTemplate \/ Finish

Spec == Init /\ [][Next]_vars

(***************************************************************************)
(* Properties.                                                             *)
(***************************************************************************)
RECURSIVE Flatten(_)
Flatten(lists) == IF lists = <<>> THEN <<>> ELSE Head(lists) \o Flatten(Tail(lists))

Count(seq, x) == Cardinality({k \in 1..Len(seq) : seq[k] = x})
FirstIndex(seq, x) == CHOOSE k \in 1..Len(seq) : seq[k] = x /\ \A m \in 1..(k - 1) : seq[m] # x

BowCalled == script = "bow" /\ bow_pc \notin {"train", "failed"}

\* Words without punctuation, and their lower-case forms.
PlainWords == {"I", "like", "Like", "apples", "love", "python3"}
Lower(word) == CASE word = "I" -> "i" [] word = "Like" -> "like" [] OTHER -> word
AdjacentBigrams(review) ==
    [k \in 1..(Len(review) - 1) |-> Lower(review[k]) \o " " \o Lower(review[k + 1])]

\* C1: with n_gram = 2, a sentence of k punctuation-free words is tokenized
\* to exactly the k-1 bigrams of its adjacent lower-cased words, so
\* ['I like apples'] gives [['i like', 'like apples']].
C1_BigramsOnly ==
    (BowCalled /\ n_gram = 2) =>
        \A s \in 1..Len(xs) :
            (xs[s] # <<>> /\ Range(xs[s]) \subseteq PlainWords) =>
                tokenized[s] = AdjacentBigrams(xs[s])

\* C2: a vocabulary built by create_bow (vocab=None) has exactly the distinct
\* tokens of the tokenized sentences as keys, and its indices are the dense
\* range 0..|vocab|-1, none repeated, in order of first occurrence.
C2_VocabDense ==
    (BowCalled /\ given.is_none) =>
        LET stream == Flatten(tokenized)
        IN  /\ DOMAIN ret_vocab = Range(stream)
            /\ {ret_vocab[t] : t \in DOMAIN ret_vocab} = 0..(len(ret_vocab) - 1)
            /\ \A t, u \in DOMAIN ret_vocab :
                  /\ (ret_vocab[t] = ret_vocab[u]) => (t = u)
                  /\ (ret_vocab[t] < ret_vocab[u]) <=>
                         (FirstIndex(stream, t) < FirstIndex(stream, u))

C2_Witness ==
    /\ BowCalled /\ given.is_none
    /\ len(ret_vocab) >= 3
    /\ \E t \in DOMAIN ret_vocab : Count(Flatten(tokenized), t) >= 2

\* C3: create_bow called twice in succession with the same sentences, n_gram
\* and vocabulary returns the same bag-of-words arrays both times.
C3_RepeatedCallSameBows ==
    (script = "bow" /\ bow_pc = "done" /\ repeat_call) => repeat_equal

C3_Witness ==
    /\ script = "bow" /\ bow_pc = "done" /\ repeat_call /\ repeat_equal
    /\ ~given.is_none
    /\ \E t \in Range(Flatten(tokenized)) : t \notin DOMAIN given.dict
    /\ \E t \in Range(Flatten(tokenized)) : t \in DOMAIN given.dict

\* C4: create_bow returns one vector per input sentence, in input order (the
\* vector at position s counts the tokens of sentence s), each as long as the
\* returned vocabulary, whether the vocabulary was built or supplied, also
\* for sentences without tokens.
C4_OneVectorPerSentence ==
    BowCalled =>
        /\ Len(bows) = Len(xs)
        /\ \A s \in 1..Len(bows) :
              /\ Len(bows[s]) = len(ret_vocab)
              /\ \A t \in DOMAIN ret_vocab :
                    ret_vocab[t] + 1 \in 1..Len(bows[s])
                    /\ bows[s][ret_vocab[t] + 1] = Count(tokenized[s], t)

C4_Witness ==
    /\ BowCalled /\ ~given.is_none
    /\ Len(xs) = 2 /\ Len(bows) = 2
    /\ tokenized[1] = <<>> /\ tokenized[2] # <<>>
    /\ len(ret_vocab) >= 2

\* C5: a call of create_bow with a caller-supplied vocabulary leaves that
\* vocabulary as it was, even when the sentences hold tokens absent from it,
\* and returns it.
C5_SuppliedVocabUnmodified ==
    (BowCalled /\ ~given.is_none) => (my_vocab = given /\ ret_vocab = given.dict)

C5_Witness ==
    /\ BowCalled /\ ~given.is_none
    /\ given.dict # EmptyDict
    /\ \E t \in Range(Flatten(tokenized)) : t \notin DOMAIN given.dict

\* C6: constructing MyBertModel raises ValueError exactly for an unrecognised
\* pooling_layer_type; for each of the six recognised values it installs a
\* pooler and raises nothing.
C6_ValueErrorExactlyWhenUnrecognised ==
    (script = "bert" /\ bert_pc = "done") =>
        /\ (bert_error = "ValueError") <=> (pooling_layer_type \notin RecognisedTypes)
        /\ (pooling_layer_type \in RecognisedTypes) =>
               (bert_error = "none" /\ pooler # NoPooler)

\* C7: when the loops have finished, variances[i][j] holds the record
\* computed for template i and attribute j, for every i and j.
C7_EveryRecordKept ==
    (script = "fill_mask" /\ fm_pc = "done") =>
        \A i \in 0..(Len(templates) - 1), j \in 0..(Len(attributes) - 1) :
            entry(i, j) = computed[i + 1][j + 1]

\* C8: _download_dataset fetches and writes the review file only when it is
\* absent; an existing file is neither fetched nor changed; after every call
\* that returns the file exists (a call that returns after finding the file
\* missing has written the fetched body), and at most one call ever wrote it.
C8_DownloadOnlyWhenAbsent ==
    (dl_calls > 0) =>
        /\ fetched => (file_before = Absent)
        /\ (file_before # Absent) => (file = file_before)
        /\ (dl_outcome = "returned") => (file # Absent)
        /\ (dl_outcome = "returned" /\ file_before = Absent) =>
               (fetched /\ file \in Bodies)
        /\ writes <= 1
        /\ (writes = 1) => (file # Absent)

C8_Witness ==
    /\ script = "download" /\ dl_calls = MaxCalls
    /\ writes = 1 /\ ~fetched /\ file \in Bodies
    /\ file_before = file /\ dl_outcome = "returned"

\* C9: position k of a sentence's vector is the number of occurrences of the
\* vocabulary's token k in the sentence; with n_gram = 1 and vocab = None the
\* vocabulary holds every distinct word of the input, so ['I like apples',
\* 'I love python3'] gives the five words I, like, apples, love, python3 at
\* indices 0..4 and the vectors [[1,1,1,0,0],[1,0,0,1,1]].
C9_UnigramExample ==
    (BowCalled /\ n_gram = 1 /\ given.is_none) =>
        /\ \A s \in 1..Len(xs) : \A w \in Range(xs[s]) \cap PlainWords :
              /\ (w \in DOMAIN ret_vocab \/ Lower(w) \in DOMAIN ret_vocab)
              /\ \E t \in {w, Lower(w)} \cap DOMAIN ret_vocab :
                    bows[s][ret_vocab[t] + 1] =
                        Cardinality({k \in 1..Len(xs[s]) : Lower(xs[s][k]) = Lower(w)})
        /\ (xs = <<(<<"I", "like", "apples">>), (<<"I", "love", "python3">>)>>) =>
              /\ len(ret_vocab) = 5
              /\ DOMAIN ret_vocab \in {{"I", "like", "apples", "love", "python3"},
                                       {"i", "like", "apples", "love", "python3"}}
              /\ bows = <<(<<1, 1, 1, 0, 0>>), (<<1, 0, 0, 1, 1>>)>>

\* The score exponent the model gives a country in a prediction list.
ExpOf(prediction, country) ==
    (CHOOSE p \in Range(prediction) : p.token_str = country).exp

\* The variance of template i and attribute j (1-based) over the ratios of
\* each country's target score to the same country's prior score, in units
\* of (ln 2)^2.
SameCountryVariance(i, j) ==
    LET prior == classifier(lm, replace_template(templates[i], "[MASK]"))[1]
        target == classifier(lm, replace_template(templates[i], attributes[j]))[1]
        logP == [c \in 1..Len(targets) |->
                    ExpOf(prior, targets[c]) - ExpOf(target, targets[c])]
        n == Len(targets)
    IN  Frac(n * Sum([c \in 1..n |-> logP[c] * logP[c]]) - Sum(logP) * Sum(logP), n * n)

RECURSIVE FracSum(_)
FracSum(s) == IF s = <<>> THEN Frac(0, 1) ELSE FracAdd(Head(s), FracSum(Tail(s)))

\* C10: the final cb_score is the sum, over every (template, attribute) pair
\* counted once, of the variance of that pair's same-country ratios, divided
\* by the number of templates times the number of attributes.
C10_ScoreIsMeanVariance ==
    (script = "fill_mask" /\ fm_pc = "done") =>
        LET T == Len(templates)
            A == Len(attributes)
            total == FracSum([p \in 1..(T * A) |->
                         SameCountryVariance(((p - 1) \div A) + 1, ((p - 1) % A) + 1)])
        IN  cb_score = Frac(total.num, total.den * T * A)

C10_Witness ==
    /\ script = "fill_mask" /\ fm_pc = "done"
    /\ Len(templates) >= 2 /\ Len(attributes) >= 2
    /\ cb_score.num > 0
    /\ \E i \in 1..Len(templates), j \in 1..Len(attributes) :
          LET prior == classifier(lm, replace_template(templates[i], "[MASK]"))[1]
              target == classifier(lm, replace_template(templates[i], attributes[j]))[1]
          IN  /\ sort_by_token_str(prior) # prior
              /\ [k \in 1..Len(prior) |-> prior[k].token_str] #
                     [k \in 1..Len(target) |-> target[k].token_str]
====
